---- MODULE Spec2Model ----
(***************************************************************************)
(* State-machine model of the session observer (useSupabase) and the view  *)
(* router (App) of the food-delivery client.                               *)
(*                                                                         *)
(* React's scheduling is modelled as follows.  A setter that changes a     *)
(* state cell marks the component dirty.  Render evaluates renderContent   *)
(* on the current state; a setPage issued while rendering discards that    *)
(* output and forces another render before anything else runs.  A render   *)
(* that completes is committed: its values become the closure (snap) the   *)
(* effect sees, and the effect is scheduled when one of its dependencies   *)
(* differs from the previous commit.  A scheduled effect runs before the   *)
(* next render.  The event loop runs each handler to completion: a         *)
(* provider callback or a user event is taken when no render and no effect *)
(* is outstanding (Idle), one at a time, in any order.                     *)
(***************************************************************************)
EXTENDS Integers, Sequences, FiniteSets, TLC

\* ---------------------------------------------------------------- bounds
MaxNotifs == 1
MaxCart == 1
MaxQty == 1
MaxCountLen == 3
MaxCountQty == 2
MaxEmail == 3
MaxId == 5

\* ---------------------------------------------------------------- values
null == "null"
NoWrite == "-"
Users == {"u1", "u2"}
Sessions == Users \cup {null}
Orders == {"o1"}
Pages == {"auth", "products", "cart", "checkout", "history", "details",
          "restaurant-dashboard"}
PageValues == Pages \cup {"other"}
ProtectedPages == {"products", "cart", "checkout", "history", "details"}
ProtectedScreens == {"RestaurantListing", "Cart", "Checkout", "OrderHistory",
                     "OrderTracking"}
navItems == {"products", "cart", "history"}
CartItems == [quantity : 1..MaxQty]
Carts == UNION {[1..n -> CartItems] : n \in 0..MaxCart}

\* strings are sequences of characters; a missing or empty field is <<>>
Guest == <<"G", "u", "e", "s", "t">>
UserPrefix == <<"U", "s", "e", "r", "-">>
NoProfile == [email |-> <<>>, id |-> <<>>]
\* the fields of the user records the provider hands out
Accounts ==
    [u \in Users |->
        IF u = "u1"
        THEN [email |-> <<"a", "@", "b">>, id |-> <<"1", "2", "3", "4", "5">>]
        ELSE [email |-> <<>>, id |-> <<"6", "7", "8", "9", "0">>]]
profileOf(u) == IF u = null THEN NoProfile ELSE Accounts[u]

\* inputs of the derived values
CountCarts == UNION {[1..n -> [quantity : 0..MaxCountQty]] : n \in 0..MaxCountLen}
Emails == UNION {[1..n -> {"a", "@"}] : n \in 0..MaxEmail}
Ids == UNION {[1..n -> {"1", "2"}] : n \in 0..MaxId}
Profiles == [email : Emails, id : Ids]

VARIABLES
    user, authReady,              \* useSupabase state
    profile,                      \* the email and id fields of the user record
    badge, displayName,           \* the memoized values of the last committed render
    page, cart, selectedOrder,    \* App state
    mounted, subscription,        \* component and listener lifecycle
    fetch, fetchVal,              \* the one-shot getSession call
    providerSession, notifs,      \* the provider and its queued notifications
    signOut, onSuccess,           \* pending sign-out call / AuthPage callback
    screen, snap, dirty, effectPending,   \* rendering
    arrived, authed,              \* history: an arrival was delivered / a login succeeded
    selectedBy                    \* history: the user who was signed in when
                                  \* selectedOrder was last set (null: no order)

vars == <<user, authReady, page, cart, selectedOrder, mounted, subscription,
          fetch, fetchVal, providerSession, notifs, signOut, onSuccess,
          screen, snap, dirty, effectPending, arrived, authed,
          profile, badge, displayName, selectedBy>>

hookState == <<user, authReady, profile>>
appState == <<page, cart, selectedOrder>>
viewState == <<screen, snap, effectPending, badge, displayName>>
providerState == <<providerSession, notifs>>
history == <<arrived, authed, selectedBy>>

\* the dependency list of the route-validation effect
deps == [ready |-> authReady, user |-> user, page |-> page, sel |-> selectedOrder]

\* ------------------------------------------------------- pure functions

onAuthStateChange_keepsUser(session) ==
    [user |-> IF session = null THEN user ELSE session, authReady |-> TRUE]

\* the onAuthStateChange callback: the values it writes
onAuthStateChange(session) ==
    [user |-> session, authReady |-> TRUE]

getSessionThen_resetsReady(session) ==
    [user |-> session, authReady |-> session # null]

\* the continuation of getSession()
getSessionThen(session) ==
    [user |-> session, authReady |-> TRUE]

signOutThen_keepsCart ==
    [cart |-> cart, page |-> "auth"]

\* the continuation of signOut(): the values it writes
signOutThen ==
    [cart |-> <<>>, page |-> "auth"]

routeEffect_cartOpen(ready, u, p, sel) ==
    IF ~ready THEN [setPage |-> NoWrite, clear |-> FALSE]
    ELSE IF u = null THEN
        [setPage |-> IF p \notin {"auth", "restaurant-dashboard", "cart"} THEN "auth" ELSE NoWrite,
         clear |-> FALSE]
    ELSE
        [setPage |-> IF p = "auth" THEN "products"
                     ELSE IF p = "details" /\ sel = null THEN "history"
                     ELSE NoWrite,
         clear |-> (p # "details" /\ sel # null)]

routeEffect_bounces(ready, u, p, sel) ==
    IF ~ready THEN [setPage |-> NoWrite, clear |-> FALSE]
    ELSE IF u = null THEN
        [setPage |-> IF p # "auth" /\ p # "restaurant-dashboard" THEN "auth" ELSE NoWrite,
         clear |-> FALSE]
    ELSE
        [setPage |-> IF p = "auth" THEN "products"
                     ELSE IF p = "details" /\ sel = null THEN "history"
                     ELSE IF p = "products" THEN "auth"
                     ELSE NoWrite,
         clear |-> (p # "details" /\ sel # null)]

routeEffect_noOwnerExempt(ready, u, p, sel) ==
    IF ~ready THEN [setPage |-> NoWrite, clear |-> FALSE]
    ELSE IF u = null THEN
        [setPage |-> IF p # "auth" THEN "auth" ELSE NoWrite,
         clear |-> FALSE]
    ELSE
        [setPage |-> IF p = "auth" THEN "products"
                     ELSE IF p = "details" /\ sel = null THEN "history"
                     ELSE NoWrite,
         clear |-> (p # "details" /\ sel # null)]

routeEffect_noReadyCheck(ready, u, p, sel) ==
    IF u = null THEN
        [setPage |-> IF p # "auth" /\ p # "restaurant-dashboard" THEN "auth" ELSE NoWrite,
         clear |-> FALSE]
    ELSE
        [setPage |-> IF p = "auth" THEN "products"
                     ELSE IF p = "details" /\ sel = null THEN "history"
                     ELSE NoWrite,
         clear |-> (p # "details" /\ sel # null)]

\* the route-validation effect: the setter calls it makes for a closure
routeEffect(ready, u, p, sel) ==
    IF ~ready THEN [setPage |-> NoWrite, clear |-> FALSE]
    ELSE IF u = null THEN
        [setPage |-> IF p # "auth" /\ p # "restaurant-dashboard" THEN "auth" ELSE NoWrite,
         clear |-> FALSE]
    ELSE
        [setPage |-> IF p = "auth" THEN "products"
                     ELSE IF p = "details" /\ sel = null THEN "history"
                     ELSE NoWrite,
         clear |-> (p # "details" /\ sel # null)]

renderContent_noDetailsGuard(ready, u, p, c, sel) ==
    IF ~ready THEN [screen |-> "Loading", setPage |-> NoWrite]
    ELSE IF p = "restaurant-dashboard" THEN
        [screen |-> "RestaurantOwnerDashboard", setPage |-> NoWrite]
    ELSE IF u = null THEN [screen |-> "AuthPage", setPage |-> NoWrite]
    ELSE CASE p = "products" -> [screen |-> "RestaurantListing", setPage |-> NoWrite]
           [] p = "cart" -> [screen |-> "Cart", setPage |-> NoWrite]
           [] p = "checkout" ->
                IF Len(c) = 0 THEN [screen |-> "Nothing", setPage |-> "products"]
                ELSE [screen |-> "Checkout", setPage |-> NoWrite]
           [] p = "history" -> [screen |-> "OrderHistory", setPage |-> NoWrite]
           [] p = "details" -> [screen |-> "OrderTracking", setPage |-> NoWrite]
           [] OTHER -> [screen |-> "RestaurantListing", setPage |-> NoWrite]

renderContent_noCartGuard(ready, u, p, c, sel) ==
    IF ~ready THEN [screen |-> "Loading", setPage |-> NoWrite]
    ELSE IF p = "restaurant-dashboard" THEN
        [screen |-> "RestaurantOwnerDashboard", setPage |-> NoWrite]
    ELSE IF u = null THEN [screen |-> "AuthPage", setPage |-> NoWrite]
    ELSE CASE p = "products" -> [screen |-> "RestaurantListing", setPage |-> NoWrite]
           [] p = "cart" -> [screen |-> "Cart", setPage |-> NoWrite]
           [] p = "checkout" -> [screen |-> "Checkout", setPage |-> NoWrite]
           [] p = "history" -> [screen |-> "OrderHistory", setPage |-> NoWrite]
           [] p = "details" ->
                IF sel = null THEN [screen |-> "Nothing", setPage |-> "history"]
                ELSE [screen |-> "OrderTracking", setPage |-> NoWrite]
           [] OTHER -> [screen |-> "RestaurantListing", setPage |-> NoWrite]

renderContent_noUserCheck(ready, u, p, c, sel) ==
    IF ~ready THEN [screen |-> "Loading", setPage |-> NoWrite]
    ELSE IF p = "restaurant-dashboard" THEN
        [screen |-> "RestaurantOwnerDashboard", setPage |-> NoWrite]
    ELSE CASE p = "products" -> [screen |-> "RestaurantListing", setPage |-> NoWrite]
           [] p = "cart" -> [screen |-> "Cart", setPage |-> NoWrite]
           [] p = "checkout" ->
                IF Len(c) = 0 THEN [screen |-> "Nothing", setPage |-> "products"]
                ELSE [screen |-> "Checkout", setPage |-> NoWrite]
           [] p = "history" -> [screen |-> "OrderHistory", setPage |-> NoWrite]
           [] p = "details" ->
                IF sel = null THEN [screen |-> "Nothing", setPage |-> "history"]
                ELSE [screen |-> "OrderTracking", setPage |-> NoWrite]
           [] OTHER -> [screen |-> "RestaurantListing", setPage |-> NoWrite]

\* renderContent: the element returned and the setPage call made while rendering
renderContent(ready, u, p, c, sel) ==
    IF ~ready THEN [screen |-> "Loading", setPage |-> NoWrite]
    ELSE IF p = "restaurant-dashboard" THEN
        [screen |-> "RestaurantOwnerDashboard", setPage |-> NoWrite]
    ELSE IF u = null THEN [screen |-> "AuthPage", setPage |-> NoWrite]
    ELSE CASE p = "products" -> [screen |-> "RestaurantListing", setPage |-> NoWrite]
           [] p = "cart" -> [screen |-> "Cart", setPage |-> NoWrite]
           [] p = "checkout" ->
                IF Len(c) = 0 THEN [screen |-> "Nothing", setPage |-> "products"]
                ELSE [screen |-> "Checkout", setPage |-> NoWrite]
           [] p = "history" -> [screen |-> "OrderHistory", setPage |-> NoWrite]
           [] p = "details" ->
                IF sel = null THEN [screen |-> "Nothing", setPage |-> "history"]
                ELSE [screen |-> "OrderTracking", setPage |-> NoWrite]
           [] OTHER -> [screen |-> "RestaurantListing", setPage |-> NoWrite]

cartItemCount_countsEntries(c) == Len(c)

RECURSIVE reduce(_, _, _)
\* Array.prototype.reduce with (sum, item) => sum + item.quantity
reduce(c, i, sum) ==
    IF i > Len(c) THEN sum ELSE reduce(c, i + 1, sum + c[i].quantity)

\* cartItemCount: the badge of the Basket button
cartItemCount(c) == reduce(c, 1, 0)

RECURSIVE indexOf(_, _, _)
\* position of the first ch in str at or after i, Len(str) + 1 when there is none
indexOf(str, ch, i) ==
    IF i > Len(str) \/ str[i] = ch THEN i ELSE indexOf(str, ch, i + 1)

\* str.split(ch)[0]
splitFirst(str, ch) == SubSeq(str, 1, indexOf(str, ch, 1) - 1)

\* str.slice(0, n)
slice0(str, n) == SubSeq(str, 1, IF Len(str) < n THEN Len(str) ELSE n)

displayUserId_wholeId(u, pr) ==
    IF u # null /\ pr.email # <<>> THEN splitFirst(pr.email, "@")
    ELSE IF u # null /\ pr.id # <<>> THEN UserPrefix \o pr.id
    ELSE Guest

\* displayUserId: the name shown in the header
displayUserId(u, pr) ==
    IF u # null /\ pr.email # <<>> THEN splitFirst(pr.email, "@")
    ELSE IF u # null /\ pr.id # <<>> THEN UserPrefix \o slice0(pr.id, 4)
    ELSE Guest

\* --------------------------------------------------------------- helpers

\* header and bottom bar of the committed render
hideNavigation == snap.page = "restaurant-dashboard"

\* no render and no effect is outstanding
Settled == mounted /\ ~dirty /\ ~effectPending /\ subscription # "none"

\* the event loop can take the next callback or user event
Idle == mounted => Settled

Touch == dirty' = (dirty \/ <<user, authReady, page, cart, selectedOrder>>'
                            # <<user, authReady, page, cart, selectedOrder>>)

\* ------------------------------------------------------------------ Init
Init ==
    /\ user = null /\ authReady = FALSE
    /\ page = "products" /\ cart = <<>> /\ selectedOrder = null
    /\ mounted = TRUE /\ subscription = "none"
    /\ fetch = "none" /\ fetchVal = null
    /\ providerSession \in Sessions /\ notifs = <<>>
    /\ signOut = "none" /\ onSuccess = FALSE
    /\ screen = "Loading"
    /\ snap = [ready |-> FALSE, user |-> null, page |-> "products", sel |-> null]
    /\ dirty = FALSE /\ effectPending = TRUE
    /\ arrived = FALSE /\ authed = FALSE /\ selectedBy = null
    /\ profile = NoProfile
    /\ badge = 0 /\ displayName = Guest

\* --------------------------------------------------- session observer

\* useSupabase's effect on mount: subscribe and issue the session fetch
Activate ==
    /\ mounted /\ subscription = "none"
    /\ subscription' = "active"
    /\ fetch' = "pending"
    /\ UNCHANGED <<hookState, appState, mounted, fetchVal, providerState,
                   signOut, onSuccess, viewState, dirty, history>>

\* the effect's cleanup on unmount
Unmount ==
    /\ mounted /\ subscription = "active" /\ Idle
    /\ mounted' = FALSE
    /\ subscription' = "released"
    /\ notifs' = <<>>
    /\ UNCHANGED <<hookState, appState, fetch, fetchVal, providerSession,
                   signOut, onSuccess, viewState, dirty, history>>

\* the provider reads the current session for the pending getSession()
FetchRead ==
    /\ fetch = "pending" /\ Idle
    /\ fetch' = "read"
    /\ fetchVal' = providerSession
    /\ UNCHANGED <<hookState, appState, mounted, subscription, providerState,
                   signOut, onSuccess, viewState, dirty, history>>

\* getSession() resolves: the .then continuation runs
FetchResolve ==
    /\ fetch = "read" /\ Idle
    /\ LET w == getSessionThen(fetchVal) IN
         /\ user' = w.user
         /\ profile' = profileOf(w.user)
         /\ authReady' = w.authReady
    /\ fetch' = "done"
    /\ fetchVal' = null
    /\ arrived' = TRUE
    /\ UNCHANGED <<appState, mounted, subscription, providerState, signOut,
                   onSuccess, viewState, authed, selectedBy>>
    /\ Touch

\* getSession() rejects: there is no rejection handler
FetchReject ==
    /\ fetch \in {"pending", "read"} /\ Idle
    /\ fetch' = "rejected"
    /\ fetchVal' = null
    /\ UNCHANGED <<hookState, appState, mounted, subscription, providerState,
                   signOut, onSuccess, viewState, dirty, history>>

\* variant: a signed-out notification also empties the cart
DeliverNotif_clearsCart ==
    /\ subscription = "active" /\ notifs # <<>> /\ Idle
    /\ LET w == onAuthStateChange(Head(notifs)) IN
         /\ user' = w.user
         /\ profile' = profileOf(w.user)
         /\ authReady' = w.authReady
         /\ cart' = IF w.user = null THEN <<>> ELSE cart
    /\ notifs' = Tail(notifs)
    /\ arrived' = TRUE
    /\ UNCHANGED <<page, selectedOrder, mounted, subscription, fetch, fetchVal,
                   providerSession, signOut, onSuccess, viewState, authed, selectedBy>>
    /\ Touch

\* the provider invokes the listener with the oldest queued notification
DeliverNotif ==
    /\ subscription = "active" /\ notifs # <<>> /\ Idle
    /\ LET w == onAuthStateChange(Head(notifs)) IN
         /\ user' = w.user
         /\ profile' = profileOf(w.user)
         /\ authReady' = w.authReady
    /\ notifs' = Tail(notifs)
    /\ arrived' = TRUE
    /\ UNCHANGED <<appState, mounted, subscription, fetch, fetchVal,
                   providerSession, signOut, onSuccess, viewState, authed, selectedBy>>
    /\ Touch

\* ------------------------------------------------------------- provider

\* the provider announces its current session (initial session, token refresh)
ProviderAnnounce ==
    /\ subscription = "active" /\ Len(notifs) < MaxNotifs /\ Idle
    /\ notifs' = Append(notifs, providerSession)
    /\ UNCHANGED <<hookState, appState, mounted, subscription, fetch, fetchVal,
                   providerSession, signOut, onSuccess, viewState, dirty, history>>

\* the session changes outside this component (another tab, expiry)
ProviderSwitch ==
    /\ subscription = "active" /\ Len(notifs) < MaxNotifs /\ Idle
    /\ \E s \in Sessions \ {providerSession} :
         /\ providerSession' = s
         /\ notifs' = Append(notifs, s)
    /\ UNCHANGED <<hookState, appState, mounted, subscription, fetch, fetchVal,
                   signOut, onSuccess, viewState, dirty, history>>

\* ----------------------------------------------------------- rendering

Render ==
    /\ mounted /\ dirty /\ ~effectPending /\ subscription # "none"
    /\ LET r == renderContent(authReady, user, page, cart, selectedOrder) IN
         IF r.setPage # NoWrite
         THEN /\ page' = r.setPage
              /\ screen' = r.screen
              /\ dirty' = TRUE
              /\ UNCHANGED <<snap, effectPending, badge, displayName>>
         ELSE /\ screen' = r.screen
              /\ badge' = cartItemCount(cart)
              /\ displayName' = displayUserId(user, profile)
              /\ snap' = deps
              /\ effectPending' = (deps # snap)
              /\ dirty' = FALSE
              /\ UNCHANGED page
    /\ UNCHANGED <<hookState, cart, selectedOrder, mounted, subscription, fetch,
                   fetchVal, providerState, signOut, onSuccess, history>>

\* the route-validation effect, run with the closure of the committed render
RouteGuard ==
    /\ mounted /\ effectPending /\ subscription # "none"
    /\ LET w == routeEffect(snap.ready, snap.user, snap.page, snap.sel) IN
         /\ page' = IF w.setPage # NoWrite THEN w.setPage ELSE page
         /\ selectedOrder' = IF w.clear THEN null ELSE selectedOrder
         /\ selectedBy' = IF w.clear THEN null ELSE selectedBy
    /\ effectPending' = FALSE
    /\ UNCHANGED <<hookState, cart, mounted, subscription, fetch, fetchVal,
                   providerState, signOut, onSuccess, screen, snap, badge,
                   displayName, arrived, authed>>
    /\ Touch

\* ------------------------------------------------------------ user events

\* a bottom-bar button: setPage(item.key)
NavClick ==
    /\ Settled
    /\ snap.user # null /\ ~hideNavigation
    /\ \E k \in navItems : page' = k
    /\ UNCHANGED <<hookState, cart, selectedOrder, mounted, subscription, fetch,
                   fetchVal, providerState, signOut, onSuccess, viewState, history>>
    /\ Touch

\* the floating owner button: setPage('restaurant-dashboard')
OwnerClick ==
    /\ Settled
    /\ ~hideNavigation
    /\ page' = "restaurant-dashboard"
    /\ UNCHANGED <<hookState, cart, selectedOrder, mounted, subscription, fetch,
                   fetchVal, providerState, signOut, onSuccess, viewState, history>>
    /\ Touch

\* RestaurantListing, Cart and Checkout hold setPage and setCart: one of their
\* handlers navigates and/or replaces the cart
ShopScreenEvent ==
    /\ Settled /\ screen \in {"RestaurantListing", "Cart", "Checkout"}
    /\ \E p \in PageValues, c \in Carts :
         /\ page' = p
         /\ cart' = c
    /\ UNCHANGED <<hookState, selectedOrder, mounted, subscription, fetch,
                   fetchVal, providerState, signOut, onSuccess, viewState, history>>
    /\ Touch

\* OrderHistory holds setPage and setSelectedOrder: one of its handlers
\* navigates and/or selects an order
OrderHistoryEvent ==
    /\ Settled /\ screen = "OrderHistory"
    /\ \E p \in PageValues, o \in Orders \cup {null} :
         /\ page' = p
         /\ selectedOrder' = o
         /\ selectedBy' = IF o = null THEN null ELSE user
    /\ UNCHANGED <<hookState, cart, mounted, subscription, fetch,
                   fetchVal, providerState, signOut, onSuccess, viewState,
                   arrived, authed>>
    /\ Touch

\* OrderTracking holds setPage
OrderTrackingEvent ==
    /\ Settled /\ screen = "OrderTracking"
    /\ \E p \in PageValues : page' = p
    /\ UNCHANGED <<hookState, cart, selectedOrder, mounted, subscription, fetch,
                   fetchVal, providerState, signOut, onSuccess, viewState, history>>
    /\ Touch

\* the auth screen authenticates: the provider holds the session, queues the
\* signed-in notification, and the screen will call onSuccess
AuthSucceeds ==
    /\ Settled /\ screen = "AuthPage" /\ ~onSuccess
    /\ subscription = "active" /\ Len(notifs) < MaxNotifs
    /\ \E u \in Users :
         /\ providerSession' = u
         /\ notifs' = Append(notifs, u)
    /\ onSuccess' = TRUE
    /\ authed' = TRUE
    /\ UNCHANGED <<hookState, appState, mounted, subscription, fetch, fetchVal,
                   signOut, viewState, dirty, arrived, selectedBy>>

\* onSuccess={() => setPage('products')}
OnSuccess ==
    /\ onSuccess /\ Idle
    /\ onSuccess' = FALSE
    /\ page' = "products"
    /\ UNCHANGED <<hookState, cart, selectedOrder, mounted, subscription, fetch,
                   fetchVal, providerState, signOut, viewState, history>>
    /\ Touch

\* ------------------------------------------------------------- sign-out

\* the Logout button: handleSignOut calls supabase.auth.signOut()
SignOutClick ==
    /\ Settled
    /\ snap.user # null /\ ~hideNavigation
    /\ signOut = "none"
    /\ signOut' = "pending"
    /\ UNCHANGED <<hookState, appState, mounted, subscription, fetch, fetchVal,
                   providerState, onSuccess, viewState, dirty, history>>

\* the provider ends the session and queues the signed-out notification
SignOutSucceeds ==
    /\ signOut = "pending" /\ Idle
    /\ subscription = "active" => Len(notifs) < MaxNotifs
    /\ signOut' = "resolved"
    /\ providerSession' = null
    /\ notifs' = IF subscription = "active" THEN Append(notifs, null) ELSE notifs
    /\ UNCHANGED <<hookState, appState, mounted, subscription, fetch, fetchVal,
                   onSuccess, viewState, dirty, history>>

\* the provider call fails
SignOutFails ==
    /\ signOut = "pending" /\ Idle
    /\ signOut' = "rejected"
    /\ UNCHANGED <<hookState, appState, mounted, subscription, fetch, fetchVal,
                   providerState, onSuccess, viewState, dirty, history>>

\* .then(() => { setCart([]); setPage('auth'); })
SignOutThen ==
    /\ signOut = "resolved" /\ Idle
    /\ signOut' = "none"
    /\ cart' = signOutThen.cart
    /\ page' = signOutThen.page
    /\ UNCHANGED <<hookState, selectedOrder, mounted, subscription, fetch,
                   fetchVal, providerState, onSuccess, viewState, history>>
    /\ Touch

\* .catch(console.error)
SignOutCatch ==
    /\ signOut = "rejected" /\ Idle
    /\ signOut' = "none"
    /\ UNCHANGED <<hookState, appState, mounted, subscription, fetch, fetchVal,
                   providerState, onSuccess, viewState, dirty, history>>

Next ==
    \/ Activate
    \/ Unmount
    \/ FetchRead
    \/ FetchResolve
    \/ FetchReject
    \/ DeliverNotif
    \/ ProviderAnnounce
    \/ ProviderSwitch
    \/ Render
    \/ RouteGuard
    \/ NavClick
    \/ OwnerClick
    \/ ShopScreenEvent
    \/ OrderHistoryEvent
    \/ OrderTrackingEvent
    \/ AuthSucceeds
    \/ OnSuccess
    \/ SignOutClick
    \/ SignOutSucceeds
    \/ SignOutFails
    \/ SignOutThen
    \/ SignOutCatch

Spec == Init /\ [][Next]_vars
\* the login scenario: the session observer, the auth screen and the router,
\* with no other navigation, sign-out or outside session change
LoginNext ==
    \/ Activate
    \/ FetchRead
    \/ FetchResolve
    \/ FetchReject
    \/ DeliverNotif
    \/ ProviderAnnounce
    \/ Render
    \/ RouteGuard
    \/ AuthSucceeds
    \/ OnSuccess

LoginSpec == Init /\ [][LoginNext]_vars

\* every callback has been delivered and the router is at rest
Quiescent ==
    /\ Settled
    /\ notifs = <<>> /\ fetch \in {"done", "rejected"}
    /\ ~onSuccess /\ signOut = "none"

\* ------------------------------------------------------------------ claims

\* C1: route protection.  Once the router is at rest in a ready state, a
\* missing user implies the page is 'auth' or the owner dashboard; and a guard
\* step whose closure is ready, has no user and a protected page sets 'auth'.
RouteProtection ==
    /\ [](Settled /\ authReady /\ user = null
            => page \in {"auth", "restaurant-dashboard"})
    /\ [][RouteGuard /\ snap.ready /\ snap.user = null
            /\ snap.page \in ProtectedPages => page' = "auth"]_vars

\* a signed-in user with a filled cart lost the session by a notification and
\* the guard moved the page to 'auth'
RouteProtectionWitness ==
    /\ Settled /\ authReady /\ user = null
    /\ page = "auth" /\ cart # <<>>

\* C2 (as claimed): at rest, selectedOrder is null whenever page is not
\* 'details', for every value of user and every non-details page.
SelectedOrderClearedOffDetails ==
    Settled /\ page # "details" => selectedOrder = null

\* C3: at rest in a ready state, page 'details' implies an order is selected;
\* a render of 'details' by a signed-in user without a selected order sets
\* page to 'history' and does not return the order-tracking screen.
DetailsHasOrder ==
    /\ [](Settled /\ authReady /\ page = "details" => selectedOrder # null)
    /\ [][Render /\ authReady /\ user # null /\ page = "details"
            /\ selectedOrder = null
            => page' = "history" /\ screen' # "OrderTracking"]_vars

\* the render of 'details' without an order was discarded with page 'history'
DetailsHasOrderWitness ==
    /\ screen = "Nothing" /\ page = "history"
    /\ selectedOrder = null /\ user # null

\* C4 (as claimed): a rejected session fetch with no notification delivered
\* leaves user = null and ready = true.
FetchFailureFailsOpen ==
    fetch = "rejected" /\ ~arrived /\ notifs = <<>>
        => authReady /\ user = null

\* C5: ready is true exactly when an arrival (notification or fetch
\* resolution) has been delivered, and never goes back to false.
ReadyFirstWriterWins ==
    /\ [](authReady <=> arrived)
    /\ [][authReady => authReady']_vars

\* a notification established readiness while the session fetch is in flight
ReadyFirstWriterWinsWitness ==
    authReady /\ arrived /\ fetch \in {"pending", "read"}

\* C6 (as claimed): after the subscription is released no callback writes
\* user or ready.
NoWriteAfterRelease ==
    [][subscription = "released" => UNCHANGED <<user, authReady>>]_vars

\* C7: the step that consumes a resolved sign-out empties the cart and sets
\* page 'auth'; the step that consumes a rejected one leaves cart, page and
\* selectedOrder alone and issues no new call.
SignOutOutcome ==
    [][/\ (signOut = "resolved" /\ signOut' # "resolved")
            => (cart' = <<>> /\ page' = "auth" /\ signOut' = "none")
       /\ (signOut = "rejected" /\ signOut' # "rejected")
            => (UNCHANGED <<cart, page, selectedOrder>> /\ signOut' = "none")]_vars

\* the continuation ran ahead of the signed-out notification
SignOutOutcomeWitness ==
    /\ signOut = "none" /\ providerSession = null /\ notifs # <<>>
    /\ user # null /\ page = "auth" /\ cart = <<>> /\ dirty

\* C8: what a render returns.  Not ready: the loading placeholder; ready on
\* the owner-dashboard route: the dashboard, whatever user is; a protected
\* screen only when ready with a user; ready without a user elsewhere: the
\* auth screen.
NoProtectedScreenWithoutSession ==
    [][Render =>
        /\ (~authReady => screen' = "Loading")
        /\ (authReady /\ page = "restaurant-dashboard"
                => screen' = "RestaurantOwnerDashboard")
        /\ (screen' \in ProtectedScreens => authReady /\ user # null)
        /\ (authReady /\ user = null /\ page # "restaurant-dashboard"
                => screen' = "AuthPage")]_vars

\* a protected page was rendered without a user and gave the auth screen
NoProtectedScreenWithoutSessionWitness ==
    /\ screen = "AuthPage" /\ snap.user = null
    /\ snap.page \in ProtectedPages /\ ~dirty

\* C9: while ready is false neither the guard nor a render changes page or
\* selectedOrder.
HoldWhileNotReady ==
    [][(RouteGuard \/ Render) /\ ~authReady
            => UNCHANGED <<page, selectedOrder>>]_vars

\* the page was changed while not ready and both the render and the guard ran
HoldWhileNotReadyWitness ==
    /\ ~authReady /\ Settled
    /\ page = "restaurant-dashboard" /\ snap.page = "restaurant-dashboard"

\* C10 (as claimed): after a successful authentication, once every callback
\* is delivered and the router is at rest, page is 'products' with a user.
LoginLandsOnProducts ==
    authed /\ Quiescent => page = "products" /\ user # null

\* C11: a render of 'checkout' by a signed-in user with an empty cart sets
\* page to 'products' and returns nothing; no render returns the checkout
\* screen for an empty cart.
EmptyCartCheckoutGuard ==
    [][Render =>
        /\ (authReady /\ user # null /\ page = "checkout" /\ cart = <<>>
                => page' = "products" /\ screen' = "Nothing")
        /\ (screen' = "Checkout" => cart # <<>>)]_vars

\* the render of 'checkout' with an empty cart was discarded with page 'products'
EmptyCartCheckoutGuardWitness ==
    /\ screen = "Nothing" /\ page = "products"
    /\ cart = <<>> /\ user # null

\* ------------------------------------------------- derived values

\* the state right after a screen replaced the cart of a signed-in user
CartCountInit ==
    /\ user = "u1" /\ profile = Accounts["u1"] /\ authReady = TRUE
    /\ page \in navItems /\ cart \in CountCarts /\ selectedOrder = null
    /\ mounted = TRUE /\ subscription = "active"
    /\ fetch = "done" /\ fetchVal = null
    /\ providerSession = "u1" /\ notifs = <<>>
    /\ signOut = "none" /\ onSuccess = FALSE
    /\ screen = "RestaurantListing"
    /\ snap = [ready |-> TRUE, user |-> "u1", page |-> "products", sel |-> null]
    /\ dirty = TRUE /\ effectPending = FALSE
    /\ arrived = TRUE /\ authed = FALSE /\ selectedBy = null
    /\ badge = 0 /\ displayName = displayUserId("u1", Accounts["u1"])

CartCountNext ==
    \/ Render
    \/ RouteGuard

CartCountSpec == CartCountInit /\ [][CartCountNext]_vars

\* the state right after an arrival delivered a user record, or none
DisplayNameInit ==
    /\ user \in {null, "u1"}
    /\ profile \in (IF user = null THEN {NoProfile} ELSE Profiles)
    /\ authReady = TRUE
    /\ page = "auth" /\ cart = <<>> /\ selectedOrder = null
    /\ mounted = TRUE /\ subscription = "active"
    /\ fetch = "done" /\ fetchVal = null
    /\ providerSession = user /\ notifs = <<>>
    /\ signOut = "none" /\ onSuccess = FALSE
    /\ screen = "Loading"
    /\ snap = [ready |-> FALSE, user |-> null, page |-> "products", sel |-> null]
    /\ dirty = TRUE /\ effectPending = FALSE
    /\ arrived = TRUE /\ authed = FALSE /\ selectedBy = null
    /\ badge = 0 /\ displayName = Guest

DisplayNameNext ==
    \/ Render
    \/ RouteGuard

DisplayNameSpec == DisplayNameInit /\ [][DisplayNameNext]_vars

RECURSIVE SumOfQuantities(_, _)
\* the sum of quantity over the entries at the positions in S
SumOfQuantities(c, S) ==
    IF S = {} THEN 0
    ELSE LET i == CHOOSE j \in S : TRUE
         IN c[i].quantity + SumOfQuantities(c, S \ {i})

\* C12: after a render the badge is the sum of quantity over all cart
\* entries, and 0 for the empty cart.
CartItemCountIsSum ==
    ~dirty => /\ badge = SumOfQuantities(cart, DOMAIN cart)
              /\ (cart = <<>> => badge = 0)

\* a cart of several entries, one of them with quantity above one, was counted
CartItemCountIsSumWitness ==
    /\ ~dirty /\ Len(cart) >= 2 /\ badge > Len(cart)
    /\ \E i \in DOMAIN cart : cart[i].quantity = 0

\* name is the part of email before its first '@' (all of it without '@')
IsLocalPart(name, email) ==
    /\ Len(name) <= Len(email)
    /\ \A i \in 1..Len(name) : name[i] = email[i] /\ name[i] # "@"
    /\ (Len(name) < Len(email) => email[Len(name) + 1] = "@")

\* name is "User-" followed by the first four characters of id
IsIdFallback(name, id) ==
    /\ Len(name) = 5 + (IF Len(id) < 4 THEN Len(id) ELSE 4)
    /\ \A i \in 1..5 : name[i] = UserPrefix[i]
    /\ \A i \in 6..Len(name) : name[i] = id[i - 5]

\* C13: after a render the display name is the local part of a non-empty
\* email; else "User-" and the first four characters of the id; else "Guest".
DisplayNameDerivation ==
    ~dirty =>
        IF user # null /\ profile.email # <<>>
        THEN IsLocalPart(displayName, profile.email)
        ELSE IF user # null /\ profile.id # <<>>
        THEN IsIdFallback(displayName, profile.id)
        ELSE displayName = Guest

\* an id longer than four characters was cut for a user without email
DisplayNameDerivationWitness ==
    /\ ~dirty /\ user # null /\ profile.email = <<>>
    /\ Len(profile.id) = 5 /\ Len(displayName) = 9

\* a queued notification was handed to the listener
NotifDelivered ==
    /\ subscription = "active" /\ subscription' = "active"
    /\ Len(notifs') < Len(notifs)

\* the session fetch resolved and its continuation ran
FetchDelivered == fetch = "read" /\ fetch' = "done"

\* C14: after each delivered arrival user is exactly the session user that
\* arrival carried (null for a null session), whichever path delivered it
\* and whatever user was before.
LastWriterWins ==
    [][/\ (NotifDelivered => user' = Head(notifs))
       /\ (FetchDelivered => user' = fetchVal)]_vars

\* the fetch resolution arrived after the notifications and overwrote the
\* user they had set
LastWriterWinsWitness ==
    /\ subscription = "active" /\ fetch = "done" /\ notifs = <<>>
    /\ user = null /\ providerSession # null

\* C15 (as claimed): once every queued notification and the fetch resolution
\* have been delivered, user is non-null exactly when the provider holds a
\* session.
SessionConverges ==
    subscription = "active" /\ notifs = <<>> /\ fetch = "done"
        => (user # null <=> providerSession # null)

\* the sign-out scenario: a session exists at start-up, and the only user
\* event is the Logout button
SignOutInit == Init /\ providerSession \in Users

SignOutNext ==
    \/ Activate
    \/ FetchRead
    \/ FetchResolve
    \/ FetchReject
    \/ DeliverNotif
    \/ ProviderAnnounce
    \/ Render
    \/ RouteGuard
    \/ SignOutClick
    \/ SignOutSucceeds
    \/ SignOutFails
    \/ SignOutThen
    \/ SignOutCatch

SignOutSpec == SignOutInit /\ [][SignOutNext]_vars

\* C16 (as claimed): after signOut has resolved (in this scenario the
\* provider's session is null only then), once every callback is delivered
\* and the router is at rest, page is 'auth', user is null and the cart is
\* empty.
SignOutLandsOnAuth ==
    providerSession = null /\ Quiescent
        => page = "auth" /\ user = null /\ cart = <<>>

\* the router alone: any state an event can leave behind, and no further event
RouterInit ==
    /\ authReady \in BOOLEAN
    /\ user \in (IF authReady THEN Sessions ELSE {null})
    /\ profile = profileOf(user)
    /\ page \in PageValues /\ cart \in Carts
    /\ selectedOrder \in (IF authReady THEN Orders \cup {null} ELSE {null})
    /\ mounted = TRUE /\ subscription = "active"
    /\ fetch = "done" /\ fetchVal = null
    /\ providerSession = user /\ notifs = <<>>
    /\ signOut = "none" /\ onSuccess = FALSE
    /\ screen = "Loading"
    /\ snap = [ready |-> FALSE, user |-> null, page |-> "products", sel |-> null]
    /\ dirty = TRUE /\ effectPending = FALSE
    /\ arrived = authReady /\ authed = FALSE
    /\ selectedBy \in (IF selectedOrder = null THEN {null} ELSE Users)
    /\ badge = 0 /\ displayName = Guest

RouterNext ==
    \/ Render
    \/ RouteGuard

\* React runs a scheduled render and a scheduled effect
RouterSpec ==
    RouterInit /\ [][RouterNext]_vars /\ WF_vars(Render) /\ WF_vars(RouteGuard)

\* neither the effect nor a render would redirect or clear in this state
IsFixedPoint ==
    /\ routeEffect(authReady, user, page, selectedOrder)
         = [setPage |-> NoWrite, clear |-> FALSE]
    /\ renderContent(authReady, user, page, cart, selectedOrder).setPage = NoWrite

\* C17: with no external event the guard and the render-time redirects come
\* to rest (there is no redirect cycle), the state at rest is a fixed point of
\* both, and it is unique because at most one of the two steps is enabled.
RedirectStabilises ==
    /\ <>[](~dirty /\ ~effectPending)
    /\ [](~dirty /\ ~effectPending => IsFixedPoint)
    /\ [](~(ENABLED Render /\ ENABLED RouteGuard))

\* the router is at rest on 'products' for a signed-in user
RedirectStabilisesWitness ==
    /\ ~dirty /\ ~effectPending /\ user # null
    /\ snap.page = "products" /\ page = "products" /\ screen = "RestaurantListing"
    /\ cart = <<>> /\ selectedOrder = null /\ badge = 0 /\ fetch = "done"
    /\ displayName # Guest /\ arrived /\ providerSession = user

\* C18: the cart is changed only by the continuation of a successful sign-out
\* and by a handler of a screen that holds setCart; an auth notification, the
\* session-fetch resolution, the route effect and a render (redirecting or
\* not) leave it unchanged
CartFrame ==
    [][/\ cart' # cart => SignOutThen \/ ShopScreenEvent
       /\ DeliverNotif \/ FetchResolve \/ RouteGuard \/ Render => cart' = cart]_vars

\* a session ended by a notification, with no sign-out call, and the cart is
\* still there once the router has come to rest on the auth screen
CartFrameWitness ==
    /\ Settled /\ arrived /\ authed /\ user = null /\ providerSession = null
    /\ signOut = "none" /\ notifs = <<>> /\ screen = "AuthPage"
    /\ cart # <<>>

\* C19: whenever the order-tracking screen is the committed render of the
\* current state, the current user is the user who was signed in when
\* selectedOrder was set
SelectedOrderSameUser ==
    Settled /\ screen = "OrderTracking" => user = selectedBy

\* C20: the route effect and the render path change neither page nor
\* selectedOrder (a) when ready with a user on 'details' with an order, and
\* (b) when ready with a user on 'products', 'cart' or 'history' with no
\* order; (c) neither of them moves page away from 'restaurant-dashboard',
\* whatever user is
StableStatesLeftAlone ==
    [][RouteGuard \/ Render =>
         /\ (authReady /\ user # null /\ page = "details" /\ selectedOrder # null)
              => page' = page /\ selectedOrder' = selectedOrder
         /\ (authReady /\ user # null /\ page \in {"products", "cart", "history"}
               /\ selectedOrder = null)
              => page' = page /\ selectedOrder' = selectedOrder
         /\ page = "restaurant-dashboard" => page' = page]_vars

\* the owner dashboard is at rest with nobody signed in: the render and the
\* effect have both run on it
StableStatesLeftAloneWitness ==
    /\ Settled /\ authReady /\ user = null
    /\ page = "restaurant-dashboard" /\ snap.page = "restaurant-dashboard"
    /\ screen = "RestaurantOwnerDashboard"
====
